---- MODULE Spec2Model ----
(***************************************************************************)
(* Tribonacci / Generalised Zeckendorf (GZR) LSB steganography.            *)
(*                                                                         *)
(* A digit string ("0"/"1" characters) is a sequence over {0,1}; a text is *)
(* a sequence of code points; a pixel grid is a record                     *)
(* [height, width, px] with px a function on (row, column) pairs.          *)
(* An attribute that may hold Python's None is None (the empty tuple) or   *)
(* Some(v) (the one-element tuple).                                        *)
(***************************************************************************)
EXTENDS Integers, Sequences, FiniteSets, TLC

VARIABLES
    \* --- codec calls (tribonacci.py) ---
    n,              \* argument of decimal_to_gzr
    threshold,      \* argument of generate_tribonacci for the weight sequence
    generated,      \* value returned by generate_tribonacci, None before the call
    gzr,            \* value returned by decimal_to_gzr, None before the call
    decoded,        \* value returned by gzr_to_decimal, None before the call
    text,           \* argument of text_to_gzr
    bits,           \* value returned by text_to_gzr (or the bitstring given to
                    \* gzr_to_text directly), None before it exists
    out_text,       \* value returned by gzr_to_text, None before the call
    valid,          \* value returned by verify_no_111_pattern, None before the call
    \* --- GZREncoder object (encoder.py) ---
    image,          \* self.image
    stego_image,    \* self.stego_image
    encoded_bits,   \* self.encoded_bits
    outfile,        \* the file at output_path, None while it does not exist
    outcome,        \* how the last encode_message call ended: None, stats or an error
    loaded,         \* history: the grid _load_image produced
    message,        \* history: the message argument of the last encode_message call
    calls,          \* history: number of encode_message calls made
    \* --- GZRDecoder object (decoder.py) ---
    dec_stego_image,    \* self.stego_image, None before construction
    extracted_bits,     \* self.extracted_bits
    dec_message,        \* self.message
    dec_outcome,        \* how decode_message ended: None, "returned" or an error
    \* --- direct calls of _embed_bits / _extract_bits ---
    frame,          \* bits argument of _embed_bits
    start_bit,      \* start_bit argument of _extract_bits
    length,         \* length argument of _extract_bits
    embedded,       \* grid returned by _embed_bits, None before the call
    extracted,      \* string returned by _extract_bits, None before the call
    \* --- a second GZREncoder, over the file holding the embedded grid ---
    second_image,   \* its self.image, None before construction
    second_frame,   \* bits argument of its _embed_bits call
    reembedded      \* grid its _embed_bits call returned, None before the call

codecVars   == <<n, threshold, generated, gzr, decoded, text, bits, out_text, valid>>
encoderVars == <<image, stego_image, encoded_bits, outfile, outcome, loaded, message, calls>>
decoderVars == <<dec_stego_image, extracted_bits, dec_message, dec_outcome>>
channelVars == <<frame, start_bit, length, embedded, extracted,
                 second_image, second_frame, reembedded>>
vars == <<codecVars, encoderVars, decoderVars, channelVars>>

None == <<>>
Some(v) == <<v>>
Get(o) == o[1]

(***************************************************************************)
(* Program constants                                                       *)
(***************************************************************************)
max_ascii == 255
chunk_size == 9
header_width == 32

(***************************************************************************)
(* Bounds of the model                                                     *)
(***************************************************************************)
MaxTextLen == 3         \* longest text over Alphabet given to text_to_gzr
ThresholdSlack == 20    \* thresholds max_ascii .. max_ascii + ThresholdSlack
MaxH == 8               \* grid heights 1..MaxH
MaxW == 7               \* grid widths 1..MaxW
MaxMsgLen == 1          \* longest message given to encode_message
MaxCalls == 2           \* encode_message calls on one encoder
MaxFrameLen == 3        \* longest arbitrary frame given to _embed_bits
MaxBelow == 2           \* integers down to -MaxBelow given to the codec calls
MaxThreshold == 280     \* largest threshold given to generate_tribonacci alone
MaxCodePoint == 340     \* largest code point given to text_to_gzr
MaxBitsLen == 10        \* longest arbitrary bitstring given to gzr_to_text

(***************************************************************************)
(* tribonacci.py                                                           *)
(***************************************************************************)
RECURSIVE TribGrowExclusive(_, _)
\* TribGrow with the break test "next_term >= max_value"
TribGrowExclusive(tribonacci, max_value) ==
    LET k == Len(tribonacci) IN
    IF tribonacci[k] < max_value
    THEN LET next_term == tribonacci[k] + tribonacci[k-1] + tribonacci[k-2] IN
         IF next_term >= max_value
         THEN tribonacci
         ELSE TribGrowExclusive(Append(tribonacci, next_term), max_value)
    ELSE tribonacci

RECURSIVE TribGrow(_, _)
\* the while loop of generate_tribonacci
TribGrow(tribonacci, max_value) ==
    LET k == Len(tribonacci) IN
    IF tribonacci[k] < max_value
    THEN LET next_term == tribonacci[k] + tribonacci[k-1] + tribonacci[k-2] IN
         IF next_term > max_value
         THEN tribonacci
         ELSE TribGrow(Append(tribonacci, next_term), max_value)
    ELSE tribonacci

\* generate_tribonacci without the "max_value < 1" return
generate_tribonacci_unguarded(max_value) == TribGrow(<<1, 2, 4>>, max_value)

generate_tribonacci(max_value) ==
    IF max_value < 1 THEN <<>> ELSE TribGrow(<<1, 2, 4>>, max_value)

reversed(s) == [k \in 1..Len(s) |-> s[Len(s) + 1 - k]]

\* lstrip('0') left out
lstrip0_none(s) == s

RECURSIVE lstrip0(_)
\* str.lstrip('0')
lstrip0(s) == IF s # <<>> /\ Head(s) = 0 THEN lstrip0(Tail(s)) ELSE s

RECURSIVE GreedyBitsNoSubtract(_, _, _)
\* GreedyBits with "remaining -= t" left out
GreedyBitsNoSubtract(seq, i, remaining) ==
    IF i = 0 THEN <<>>
    ELSE IF seq[i] <= remaining
         THEN <<1>> \o GreedyBitsNoSubtract(seq, i - 1, remaining)
         ELSE <<0>> \o GreedyBitsNoSubtract(seq, i - 1, remaining)

RECURSIVE GreedyBits(_, _, _)
\* the for loop of decimal_to_gzr over reversed(tribonacci_seq): the weights
\* seq[i], seq[i-1], .., seq[1] against the running remainder
GreedyBits(seq, i, remaining) ==
    IF i = 0 THEN <<>>
    ELSE IF seq[i] <= remaining
         THEN <<1>> \o GreedyBits(seq, i - 1, remaining - seq[i])
         ELSE <<0>> \o GreedyBits(seq, i - 1, remaining)

\* tribonacci_seq is None (the default) or Some(sequence)
decimal_to_gzr(num, tribonacci_seq) ==
    IF num <= 0 THEN <<0>>
    ELSE LET seq == IF tribonacci_seq = None THEN generate_tribonacci(num)
                    ELSE Get(tribonacci_seq)
             result == lstrip0(reversed(GreedyBits(seq, Len(seq), num)))
         IN IF result # <<>> THEN result ELSE <<0>>

RECURSIVE WeightSum(_, _, _)
\* the for loop of gzr_to_decimal from 1-based position i on
WeightSum(gzr_bits, tribonacci_seq, i) ==
    IF i > Len(gzr_bits) THEN 0
    ELSE (IF gzr_bits[i] = 1 /\ i <= Len(tribonacci_seq) THEN tribonacci_seq[i] ELSE 0)
         + WeightSum(gzr_bits, tribonacci_seq, i + 1)

RECURSIVE Pow2(_)
Pow2(k) == IF k = 0 THEN 1 ELSE 2 * Pow2(k - 1)

\* tribonacci_seq is None (the default) or Some(sequence)
gzr_to_decimal(gzr_bits, tribonacci_seq) ==
    IF gzr_bits = <<>> \/ gzr_bits = <<0>> THEN 0
    ELSE LET bit_length == Len(gzr_bits)
             seq == IF tribonacci_seq = None THEN generate_tribonacci(Pow2(bit_length))
                    ELSE Get(tribonacci_seq)
         IN WeightSum(gzr_bits, seq, 1)

\* zfill with the zeros appended instead (str.ljust(width, '0'))
zfill_right(s, width) ==
    IF Len(s) >= width THEN s ELSE s \o [k \in 1..(width - Len(s)) |-> 0]

\* zfill left out
zfill_none(s, width) == s

\* str.zfill(width): zeros prepended up to the width, longer strings unchanged
zfill(s, width) ==
    IF Len(s) >= width THEN s ELSE [k \in 1..(width - Len(s)) |-> 0] \o s

RECURSIVE TextSlots(_, _)
\* the for loop of text_to_gzr joined: one slot per character
TextSlots(txt, tribonacci_seq) ==
    IF txt = <<>> THEN <<>>
    ELSE zfill(decimal_to_gzr(Head(txt), Some(tribonacci_seq)), chunk_size)
         \o TextSlots(Tail(txt), tribonacci_seq)

\* text_to_gzr with the sequence generated for 2 * max_ascii
text_to_gzr_wide(txt) == TextSlots(txt, generate_tribonacci(2 * max_ascii))

text_to_gzr(txt) == TextSlots(txt, generate_tribonacci(max_ascii))

\* Python slice s[a:b] with 0 <= a <= b (0-based, end exclusive, clipped)
Slice(s, a, b) ==
    LET e == IF b < Len(s) THEN b ELSE Len(s) IN
    IF a >= e THEN <<>> ELSE [k \in 1..(e - a) |-> s[a + k]]

RECURSIVE TextChunksKeepNull(_, _, _)
\* TextChunks with the "ascii_val > 0" test left out
TextChunksKeepNull(gzr_bits, tribonacci_seq, i) ==
    IF i >= Len(gzr_bits) THEN <<>>
    ELSE LET chunk == Slice(gzr_bits, i, i + chunk_size)
             ascii_val == gzr_to_decimal(chunk, Some(tribonacci_seq))
         IN (IF Len(chunk) = chunk_size THEN <<ascii_val>> ELSE <<>>)
            \o TextChunksKeepNull(gzr_bits, tribonacci_seq, i + chunk_size)

RECURSIVE TextChunks(_, _, _)
\* the for loop of gzr_to_text from offset i on
TextChunks(gzr_bits, tribonacci_seq, i) ==
    IF i >= Len(gzr_bits) THEN <<>>
    ELSE LET chunk == Slice(gzr_bits, i, i + chunk_size)
             ascii_val == gzr_to_decimal(chunk, Some(tribonacci_seq))
         IN (IF Len(chunk) = chunk_size /\ ascii_val > 0 THEN <<ascii_val>> ELSE <<>>)
            \o TextChunks(gzr_bits, tribonacci_seq, i + chunk_size)

gzr_to_text(gzr_bits) == TextChunks(gzr_bits, generate_tribonacci(max_ascii), 0)

RECURSIVE Count111(_, _)
\* str.count("111"): non-overlapping occurrences from 1-based position i on
Count111(s, i) ==
    IF i + 2 > Len(s) THEN 0
    ELSE IF s[i] = 1 /\ s[i+1] = 1 /\ s[i+2] = 1
         THEN 1 + Count111(s, i + 3)
         ELSE Count111(s, i + 1)

verify_no_111_pattern(gzr_bits) ==
    LET count_111 == Count111(gzr_bits, 1) IN
    [is_valid |-> count_111 = 0, count_111 |-> count_111]

RECURSIVE CountOnes(_, _)
CountOnes(s, i) == IF i > Len(s) THEN 0 ELSE s[i] + CountOnes(s, i + 1)

\* the ratio ones_count / total_bits as a pair, 0.0 for the empty string
calculate_bit_density(gzr_bits) ==
    IF gzr_bits = <<>> THEN [ones |-> 0, total |-> 1]
    ELSE [ones |-> CountOnes(gzr_bits, 1), total |-> Len(gzr_bits)]

(***************************************************************************)
(* encoder.py                                                              *)
(***************************************************************************)
\* EmbedPos with the loops nested the other way round (column by column)
EmbedPosColumnMajor(k, height, width) == <<k % height, k \div height>>

\* row and column reached by the loops "for i in range(height): for j in
\* range(width)" of _embed_bits at their k-th iteration (k from 0)
EmbedPos(k, height, width) == <<k \div width, k % width>>

\* get_capacity without the division by 8
get_capacity_bits(img) == img.height * img.width

get_capacity(img) ==
    LET capacity_bits == img.height * img.width
        capacity_bytes == capacity_bits \div 8
    IN capacity_bytes

RECURSIVE ToBinary(_)
\* the binary digits of v >= 0, most significant first ("0" for 0)
ToBinary(v) == IF v < 2 THEN <<v>> ELSE Append(ToBinary(v \div 2), v % 2)

\* format(v, '032b') with the digits least significant first
format_032b_lsb_first(v) == reversed(zfill(ToBinary(v), header_width))

\* format(v, '032b')
format_032b(v) == zfill(ToBinary(v), header_width)

\* pixel_value & 0xFE for an 8-bit pixel value
AndFE(pixel_value) == pixel_value - (pixel_value % 2)

\* (pixel_value & 0xFE) | bit_to_embed
OrBit(cleared, bit_to_embed) == cleared + bit_to_embed

RECURSIVE EmbedLoopOrOnly(_, _, _)
\* EmbedLoop with "pixel_value | bit_to_embed": the old bit is not cleared
EmbedLoopOrOnly(stego, k, bits_arg) ==
    IF k >= stego.height * stego.width THEN stego
    ELSE IF k >= Len(bits_arg) THEN stego
    ELSE LET pos == EmbedPos(k, stego.height, stego.width)
             pixel_value == stego.px[pos]
             bit_to_embed == bits_arg[k + 1]
             new_pixel == IF bit_to_embed = 1 THEN OrBit(AndFE(pixel_value), 1)
                          ELSE pixel_value
         IN EmbedLoopOrOnly([stego EXCEPT !.px[pos] = new_pixel], k + 1, bits_arg)

RECURSIVE EmbedLoop(_, _, _)
\* the nested loops of _embed_bits from scan position k on; bit_index is
\* incremented once per pixel and so equals k
EmbedLoop(stego, k, bits_arg) ==
    IF k >= stego.height * stego.width THEN stego
    ELSE IF k >= Len(bits_arg) THEN stego
    ELSE LET pos == EmbedPos(k, stego.height, stego.width)
             pixel_value == stego.px[pos]
             bit_to_embed == bits_arg[k + 1]
             new_pixel == OrBit(AndFE(pixel_value), bit_to_embed)
         IN EmbedLoop([stego EXCEPT !.px[pos] = new_pixel], k + 1, bits_arg)

\* _embed_bits with "stego = self.image" (no copy): the loops write self.image
_embed_bits_in_place(img, bits_arg) ==
    [image |-> EmbedLoop(img, 0, bits_arg), stego |-> EmbedLoop(img, 0, bits_arg)]

\* stego = self.image.copy() and the loops: the grid self.image holds
\* afterwards and the grid returned
_embed_bits(img, bits_arg) ==
    [image |-> img, stego |-> EmbedLoop(img, 0, bits_arg)]

\* encode_message with steps 4-6 (header, embedding, saving) moved before the
\* capacity check, so that a rejected call has already embedded
encode_message_embed_first(self, msg, output_path) ==
    LET eb == text_to_gzr(msg)
        capacity == get_capacity(self.image)
        required == Len(eb) \div 8 + 1
        v == verify_no_111_pattern(eb)
        r == _embed_bits(self.image, format_032b(Len(eb)) \o eb)
        after == [image |-> r.image,
                  stego_image |-> Some(r.stego),
                  encoded_bits |-> Some(eb),
                  outfile |-> IF output_path # None THEN Some(r.stego) ELSE self.outfile]
    IN IF required > capacity
       THEN [self |-> after, outcome |-> [error |-> "ValueError", stats |-> None]]
       ELSE [self |-> after,
             outcome |-> [error |-> "",
                          stats |-> Some([message_length |-> Len(msg),
                                          encoded_bits |-> Len(eb),
                                          bit_density |-> calculate_bit_density(eb),
                                          valid_gzr |-> v.is_valid,
                                          pattern_111_count |-> v.count_111,
                                          required |-> required,
                                          capacity |-> capacity])]]

\* self is [image, stego_image, encoded_bits, outfile]; output_path is
\* None or Some(path); returns the object after the call and how it ended
encode_message(self, msg, output_path) ==
    LET eb == text_to_gzr(msg)
        capacity == get_capacity(self.image)
        required == Len(eb) \div 8 + 1
    IN IF required > capacity
       THEN [self |-> [self EXCEPT !.encoded_bits = Some(eb)],
             outcome |-> [error |-> "ValueError", stats |-> None]]
       ELSE LET v == verify_no_111_pattern(eb)
                density == calculate_bit_density(eb)
                length_bits == format_032b(Len(eb))
                full_bits == length_bits \o eb
                r == _embed_bits(self.image, full_bits)
            IN [self |-> [image |-> r.image,
                          stego_image |-> Some(r.stego),
                          encoded_bits |-> Some(eb),
                          outfile |-> IF output_path # None THEN Some(r.stego)
                                      ELSE self.outfile],
                outcome |-> [error |-> "",
                             stats |-> Some([message_length |-> Len(msg),
                                             encoded_bits |-> Len(eb),
                                             bit_density |-> density,
                                             valid_gzr |-> v.is_valid,
                                             pattern_111_count |-> v.count_111,
                                             required |-> required,
                                             capacity |-> capacity])]]

(***************************************************************************)
(* decoder.py                                                              *)
(***************************************************************************)
\* ExtractPos with the loops nested the other way round (column by column)
ExtractPosColumnMajor(k, height, width) == <<k % height, k \div height>>

\* row and column reached by the loops "for i in range(height): for j in
\* range(width)" of _extract_bits at their k-th iteration (k from 0)
ExtractPos(k, height, width) == <<k \div width, k % width>>

RECURSIVE ExtractLoop(_, _, _, _, _)
\* the nested loops of _extract_bits from scan position k (= bit_index) on
ExtractLoop(img, k, start, len, acc) ==
    IF k >= img.height * img.width THEN acc
    ELSE LET pos == ExtractPos(k, img.height, img.width)
             lsb == img.px[pos] % 2
             acc2 == IF k >= start /\ k < start + len THEN Append(acc, lsb) ELSE acc
         IN IF k + 1 >= start + len THEN acc2
            ELSE ExtractLoop(img, k + 1, start, len, acc2)

\* _extract_bits with the range test "bit_index <= start_bit + length"
_extract_bits_inclusive(img, start, len) == ExtractLoop(img, 0, start, len + 1, <<>>)

_extract_bits(img, start, len) == ExtractLoop(img, 0, start, len, <<>>)

\* Python integers are unbounded and the model checker's are 32-bit: a value
\* of IntCap or more is represented by IntCap.  The grids of the model have
\* far fewer than IntCap scan positions, so a capped length selects the same
\* scan positions as the exact one.
IntCap == Pow2(30)

\* value * 2 + digit, capped
ShiftIn(value, digit) ==
    IF value >= IntCap \div 2 THEN IntCap ELSE 2 * value + digit

RECURSIVE BinaryValue(_, _)
\* value of the first k binary digits of s, most significant first
BinaryValue(s, k) == IF k = 0 THEN 0 ELSE ShiftIn(BinaryValue(s, k - 1), s[k])

\* int(s, 2): None stands for the ValueError raised on the empty string
int_base2(s) == IF s = <<>> THEN None ELSE Some(BinaryValue(s, Len(s)))

\* decode_message with a check added that raises when fewer digits than
\* the header declares could be extracted
decode_message_checked(stego) ==
    LET parsed == int_base2(_extract_bits(stego, 0, header_width))
        eb == IF parsed = None THEN <<>>
              ELSE _extract_bits(stego, header_width, Get(parsed))
    IN IF parsed = None \/ Len(eb) < Get(parsed)
       THEN [extracted_bits |-> None, message |-> None, outcome |-> "ValueError"]
       ELSE [extracted_bits |-> Some(eb),
             message |-> Some(gzr_to_text(eb)),
             outcome |-> "returned"]

\* returns the attributes the call sets and how it ended
decode_message(stego) ==
    LET length_bits == _extract_bits(stego, 0, header_width)
        parsed == int_base2(length_bits)
    IN IF parsed = None
       THEN [extracted_bits |-> None, message |-> None, outcome |-> "ValueError"]
       ELSE LET message_length == Get(parsed)
                eb == _extract_bits(stego, header_width, message_length)
            IN [extracted_bits |-> Some(eb),
                message |-> Some(gzr_to_text(eb)),
                outcome |-> "returned"]

(***************************************************************************)
(* Inputs                                                                  *)
(***************************************************************************)
SeqsUpTo(S, k) == UNION {[1..m -> S] : m \in 0..k}

\* code points whose slots cover: the null slot, weight 1 alone, a stripped
\* low zero, an ASCII letter, the largest weight alone, the two largest weights
Alphabet == {0, 1, 2, 65, 149, 230}

\* code points above max_ascii, up to past the sum of the nine weights
WideChars == (max_ascii + 1)..MaxCodePoint

\* every one-character text, every text over Alphabet up to MaxTextLen, and
\* every code point above max_ascii alone and after an ASCII letter
Texts == {<<c>> : c \in 0..max_ascii} \cup SeqsUpTo(Alphabet, MaxTextLen)
         \cup {<<c>> : c \in WideChars} \cup {<<65, c>> : c \in WideChars}

\* chunks given to gzr_to_text: the slot of every code point of Alphabet, a
\* saturated chunk and a chunk no slot of text_to_gzr has
SampleChunks ==
    {text_to_gzr(<<c>>) : c \in Alphabet}
    \cup {<<1, 1, 1, 1, 1, 1, 1, 1, 1>>, <<1, 1, 1, 0, 0, 0, 0, 0, 0>>}

\* trailing digits short of a chunk: none, one digit, one digit short
SampleTails == {<<>>, <<1>>, <<1, 0, 1, 1, 0, 1, 1, 1>>}

\* bitstrings given to gzr_to_text: every bitstring up to MaxBitsLen digits
\* (every single chunk among them), and up to two sample chunks and a tail
BitStrings ==
    SeqsUpTo({0, 1}, MaxBitsLen)
    \cup {a \o b \o t : a \in SampleChunks \cup {<<>>}, b \in SampleChunks, t \in SampleTails}

Thresholds == max_ascii..(max_ascii + ThresholdSlack)

\* thresholds of the generator calls: below 1, below the seed's last term,
\* equal to a term, between terms, up to past the tenth term
GenThresholds == (0 - MaxBelow)..MaxThreshold

\* pixel value at row i, column j of the fill f: a zeroed grid, a saturated
\* grid, and a grid of mixed values and mixed least-significant bits
Fill(f, i, j) ==
    CASE f = 0 -> 0
      [] f = 1 -> 255
      [] OTHER -> (i * i * 31 + j * 17 + ((i * j) \div 2) + 100) % 256

Fills == {0, 2}

MakeGrid(h, w, f) ==
    [height |-> h, width |-> w,
     px |-> [pos \in (0..(h - 1)) \X (0..(w - 1)) |-> Fill(f, pos[1], pos[2])]]

Widths == {1, 3, MaxW}

Grids == {MakeGrid(h, w, f) : h \in 1..MaxH, w \in Widths, f \in Fills}

MsgAlphabet == {65, 230}

Messages == SeqsUpTo(MsgAlphabet, MaxMsgLen)

\* messages whose frames are given to _embed_bits directly: one character more
ChannelMessages == SeqsUpTo(MsgAlphabet, MaxMsgLen + 1)

OutputPaths == {None, Some("stego.png")}

(***************************************************************************)
(* Codec calls: decimal_to_gzr / gzr_to_decimal / verify_no_111_pattern on *)
(* an integer, text_to_gzr / gzr_to_text / verify_no_111_pattern on a text *)
(***************************************************************************)
EncoderIdle ==
    /\ image = None /\ stego_image = None /\ encoded_bits = None /\ outfile = None
    /\ outcome = None /\ loaded = None /\ message = None /\ calls = 0

DecoderIdle ==
    /\ dec_stego_image = None /\ extracted_bits = None
    /\ dec_message = None /\ dec_outcome = None

ChannelIdle ==
    /\ frame = None /\ start_bit = None /\ length = None
    /\ embedded = None /\ extracted = None
    /\ second_image = None /\ second_frame = None /\ reembedded = None

CodecIdle ==
    /\ n = None /\ threshold = None /\ generated = None /\ gzr = None /\ decoded = None
    /\ text = None /\ bits = None /\ out_text = None /\ valid = None

InitCodec ==
    /\ \/ /\ n \in {Some(v) : v \in (0 - MaxBelow)..max_ascii}
          /\ threshold \in {None} \cup {Some(t) : t \in Thresholds}
          /\ text = None
          /\ bits = None
       \/ /\ n = None
          /\ threshold = None
          /\ text \in {Some(t) : t \in Texts}
          /\ bits = None
       \/ /\ n = None
          /\ threshold \in {Some(t) : t \in GenThresholds}
          /\ text = None
          /\ bits = None
       \/ /\ n = None
          /\ threshold = None
          /\ text = None
          /\ bits \in {Some(b) : b \in BitStrings}
    /\ generated = None
    /\ gzr = None /\ decoded = None /\ out_text = None /\ valid = None
    /\ EncoderIdle /\ DecoderIdle /\ ChannelIdle

\* the tribonacci_seq argument of the integer calls: None, or the sequence
\* generated for the threshold
SeqArg == IF threshold = None THEN None ELSE Some(generate_tribonacci(Get(threshold)))

CallGenerateTribonacci ==
    /\ threshold # None /\ generated = None
    /\ generated' = Some(generate_tribonacci(Get(threshold)))
    /\ UNCHANGED <<n, threshold, gzr, decoded, text, bits, out_text, valid>>
    /\ UNCHANGED <<encoderVars, decoderVars, channelVars>>

CallDecimalToGzr ==
    /\ n # None /\ gzr = None
    /\ gzr' = Some(decimal_to_gzr(Get(n), SeqArg))
    /\ UNCHANGED <<n, threshold, generated, decoded, text, bits, out_text, valid>>
    /\ UNCHANGED <<encoderVars, decoderVars, channelVars>>

CallGzrToDecimal ==
    /\ gzr # None /\ decoded = None
    /\ decoded' = Some(gzr_to_decimal(Get(gzr), SeqArg))
    /\ UNCHANGED <<n, threshold, generated, gzr, text, bits, out_text, valid>>
    /\ UNCHANGED <<encoderVars, decoderVars, channelVars>>

CallVerifyNumeral ==
    /\ gzr # None /\ valid = None
    /\ valid' = Some(verify_no_111_pattern(Get(gzr)))
    /\ UNCHANGED <<n, threshold, generated, gzr, decoded, text, bits, out_text>>
    /\ UNCHANGED <<encoderVars, decoderVars, channelVars>>

CallTextToGzr ==
    /\ text # None /\ bits = None
    /\ bits' = Some(text_to_gzr(Get(text)))
    /\ UNCHANGED <<n, threshold, generated, gzr, decoded, text, out_text, valid>>
    /\ UNCHANGED <<encoderVars, decoderVars, channelVars>>

CallGzrToText ==
    /\ bits # None /\ out_text = None
    /\ out_text' = Some(gzr_to_text(Get(bits)))
    /\ UNCHANGED <<n, threshold, generated, gzr, decoded, text, bits, valid>>
    /\ UNCHANGED <<encoderVars, decoderVars, channelVars>>

CallVerifyText ==
    /\ bits # None /\ valid = None
    /\ valid' = Some(verify_no_111_pattern(Get(bits)))
    /\ UNCHANGED <<n, threshold, generated, gzr, decoded, text, bits, out_text>>
    /\ UNCHANGED <<encoderVars, decoderVars, channelVars>>

NextCodec ==
    \/ CallGenerateTribonacci
    \/ CallDecimalToGzr
    \/ CallGzrToDecimal
    \/ CallVerifyNumeral
    \/ CallTextToGzr
    \/ CallGzrToText
    \/ CallVerifyText

SpecCodec == InitCodec /\ [][NextCodec]_vars

(***************************************************************************)
(* Direct calls of _embed_bits and _extract_bits: an encoder over a grid   *)
(* embeds a frame, a decoder over the returned grid extracts a range       *)
(***************************************************************************)
Frame(msg) == format_032b(Len(text_to_gzr(msg))) \o text_to_gzr(msg)

\* a frame of the given length with mixed digits
PatternFrame(len, p) == [k \in 1..len |-> (((k * k) \div (p + 2)) + k * p) % 2]

\* frames tried on the grid g: every short bitstring, the frame of every
\* message, and mixed frames one short of, equal to and one above H*W
FramesFor(g) ==
    SeqsUpTo({0, 1}, MaxFrameLen)
    \cup {Frame(m) : m \in ChannelMessages}
    \cup {PatternFrame(g.height * g.width + d, p) : d \in {-1, 0, 1}, p \in {0, 1}}

ExtractStarts == {0, 1, header_width}

ExtractLengths(g, f) == {0, 1, Len(f), g.height * g.width + 1}

InitChannel ==
    /\ \E g \in Grids :
          /\ image = Some(g)
          /\ loaded = Some(g)
          /\ frame \in {Some(f) : f \in FramesFor(g)}
    /\ start_bit = None /\ length = None /\ embedded = None /\ extracted = None
    /\ second_image = None /\ second_frame = None /\ reembedded = None
    /\ stego_image = None /\ encoded_bits = None /\ outfile = None
    /\ outcome = None /\ message = None /\ calls = 0
    /\ CodecIdle /\ DecoderIdle

CallEmbedBits ==
    /\ embedded = None
    /\ LET r == _embed_bits(Get(image), Get(frame)) IN
          /\ image' = Some(r.image)
          /\ embedded' = Some(r.stego)
    /\ UNCHANGED <<frame, start_bit, length, extracted>>
    /\ UNCHANGED <<second_image, second_frame, reembedded>>
    /\ UNCHANGED <<stego_image, encoded_bits, outfile, outcome, loaded, message, calls>>
    /\ UNCHANGED <<codecVars, decoderVars>>

CallExtractBits ==
    /\ embedded # None /\ extracted = None
    /\ \E s \in ExtractStarts, l \in ExtractLengths(Get(embedded), Get(frame)) :
          /\ start_bit' = Some(s)
          /\ length' = Some(l)
          /\ extracted' = Some(_extract_bits(Get(embedded), s, l))
    /\ UNCHANGED <<frame, embedded>>
    /\ UNCHANGED <<second_image, second_frame, reembedded>>
    /\ UNCHANGED <<codecVars, encoderVars, decoderVars>>

(***************************************************************************)
(* A GZREncoder over a loaded grid, its output file, and a GZRDecoder over *)
(* that file                                                               *)
(***************************************************************************)
\* cv2.imread of a file cv2.imwrite wrote (a lossless format) and the
\* grayscale conversion: the grid written
imread(file) == file

Init ==
    /\ \E g \in Grids :
          /\ image = Some(g)
          /\ loaded = Some(g)
    /\ stego_image = None /\ encoded_bits = None /\ outfile = None
    /\ outcome = None /\ message = None /\ calls = 0
    /\ CodecIdle /\ DecoderIdle /\ ChannelIdle

EncodeMessage ==
    /\ calls < MaxCalls
    /\ \E msg \in Messages, output_path \in OutputPaths :
          \E r \in {encode_message([image |-> Get(image), stego_image |-> stego_image,
                       encoded_bits |-> encoded_bits, outfile |-> outfile], msg, output_path)} :
             /\ image' = Some(r.self.image)
             /\ stego_image' = r.self.stego_image
             /\ encoded_bits' = r.self.encoded_bits
             /\ outfile' = r.self.outfile
             /\ outcome' = Some(r.outcome)
             /\ message' = Some(msg)
    /\ calls' = calls + 1
    /\ UNCHANGED loaded
    /\ UNCHANGED <<codecVars, decoderVars, channelVars>>

\* GZRDecoder(path): _load_image raises FileNotFoundError when there is no file
DecoderInit ==
    /\ dec_stego_image = None /\ dec_outcome = None
    /\ IF outfile = None
       THEN /\ dec_outcome' = Some("FileNotFoundError")
            /\ UNCHANGED dec_stego_image
       ELSE /\ dec_stego_image' = Some(imread(Get(outfile)))
            /\ UNCHANGED dec_outcome
    /\ UNCHANGED <<extracted_bits, dec_message>>
    /\ UNCHANGED <<codecVars, encoderVars, channelVars>>

DecodeMessage ==
    /\ dec_stego_image # None /\ dec_outcome = None
    /\ LET r == decode_message(Get(dec_stego_image)) IN
          /\ extracted_bits' = r.extracted_bits
          /\ dec_message' = r.message
          /\ dec_outcome' = Some(r.outcome)
    /\ UNCHANGED dec_stego_image
    /\ UNCHANGED <<codecVars, encoderVars, channelVars>>

Next ==
    \/ EncodeMessage
    \/ DecoderInit
    \/ DecodeMessage

Spec == Init /\ [][Next]_vars

\* GZRDecoder over the file that holds the grid _embed_bits returned
DecoderOverEmbedded ==
    /\ embedded # None /\ dec_stego_image = None
    /\ dec_stego_image' = Some(imread(Get(embedded)))
    /\ UNCHANGED <<extracted_bits, dec_message, dec_outcome>>
    /\ UNCHANGED <<codecVars, encoderVars, channelVars>>

NextChannel ==
    \/ CallEmbedBits
    \/ CallExtractBits
    \/ DecoderOverEmbedded
    \/ DecodeMessage

SpecChannel == InitChannel /\ [][NextChannel]_vars

(***************************************************************************)
(* Overwriting: a second GZREncoder over the file holding the grid         *)
(* _embed_bits returned embeds another frame, and a GZRDecoder reads the   *)
(* grid that comes out                                                     *)
(***************************************************************************)
\* frames of the second embedding: the frame of every message, and the frame
\* embedded first
SecondFrames == {Frame(m) : m \in ChannelMessages} \cup {Get(frame)}

\* GZREncoder(path) over the file that holds the grid _embed_bits returned
EncoderOverEmbedded ==
    /\ embedded # None /\ second_image = None
    /\ second_image' = Some(imread(Get(embedded)))
    /\ second_frame' \in {Some(f) : f \in SecondFrames}
    /\ UNCHANGED <<frame, start_bit, length, embedded, extracted, reembedded>>
    /\ UNCHANGED <<codecVars, encoderVars, decoderVars>>

CallEmbedBitsAgain ==
    /\ second_image # None /\ reembedded = None
    /\ LET r == _embed_bits(Get(second_image), Get(second_frame)) IN
          /\ second_image' = Some(r.image)
          /\ reembedded' = Some(r.stego)
    /\ UNCHANGED <<frame, start_bit, length, embedded, extracted, second_frame>>
    /\ UNCHANGED <<codecVars, encoderVars, decoderVars>>

\* GZRDecoder over the file that holds the grid of the second embedding
DecoderOverReembedded ==
    /\ reembedded # None /\ dec_stego_image = None
    /\ dec_stego_image' = Some(imread(Get(reembedded)))
    /\ UNCHANGED <<extracted_bits, dec_message, dec_outcome>>
    /\ UNCHANGED <<codecVars, encoderVars, channelVars>>

NextOverwrite ==
    \/ CallEmbedBits
    \/ EncoderOverEmbedded
    \/ CallEmbedBitsAgain
    \/ DecoderOverReembedded
    \/ DecodeMessage

SpecOverwrite == InitChannel /\ [][NextOverwrite]_vars

(***************************************************************************)
(* Properties                                                              *)
(***************************************************************************)
Accepted == outcome # None /\ Get(outcome).error = ""
Rejected == outcome # None /\ Get(outcome).error = "ValueError"
Pixels(g) == g.height * g.width
NoPattern == Some([is_valid |-> TRUE, count_111 |-> 0])
\* the text with every code-point-0 character removed
WithoutNull(t) == SelectSeq(t, LAMBDA c : c # 0)

\* every code point of the text is in [0,255]
InLatin1(t) == \A k \in 1..Len(t) : t[k] \in 0..max_ascii

\* C1: gzr_to_text(text_to_gzr(text)) is the text when all its code points
\* are in [1,255], and in general the text with its code-point-0 characters
\* removed and every other character kept in order.
C1_TextRoundTrip ==
    (text # None /\ out_text # None /\ InLatin1(Get(text))) =>
        /\ Get(out_text) = WithoutNull(Get(text))
        /\ (\A k \in 1..Len(Get(text)) : Get(text)[k] >= 1) => out_text = text

\* a text with a null, a stripped low zero and a slot ending in two ones
C1_Witness ==
    /\ text = Some(<<2, 0, 230>>)
    /\ bits # None
    /\ out_text = Some(<<2, 230>>)

\* C2: for every n in [1,255] and a weight sequence generated for a threshold
\* of at least 255, gzr_to_decimal(decimal_to_gzr(n, seq), seq) = n.
C2_IntegerRoundTrip ==
    (n # None /\ threshold # None /\ decoded # None /\ Get(n) >= 1) =>
        Get(decoded) = Get(n)

\* C3: the bitstring text_to_gzr returns never contains "111", also across
\* the boundary of two adjacent slots: verify_no_111_pattern gives (True, 0).
C3_No111InPayload ==
    (text # None /\ valid # None /\ InLatin1(Get(text))) => valid = NoPattern

\* C4: for every n in [1,255] the unpadded digit string decimal_to_gzr returns
\* for the threshold-255 sequence has no three consecutive ones:
\* verify_no_111_pattern gives (True, 0).
C4_No111InNumeral ==
    (n # None /\ Get(n) >= 1 /\ threshold = Some(max_ascii) /\ valid # None) =>
        valid = NoPattern

\* the numeral of 65 = 44 + 13 + 7 + 1, which holds two adjacent ones
C4_Witness ==
    /\ n = Some(65) /\ threshold = Some(max_ascii)
    /\ gzr = Some(<<1, 0, 0, 1, 1, 0, 1, 0, 0>>)
    /\ valid = NoPattern

\* C5: whenever encode_message accepts a message over [1,255], decode_message
\* on the stego grid it produced returns exactly that message.
C5_EndToEndRecovery ==
    (Accepted /\ dec_stego_image = stego_image /\ dec_outcome # None) =>
        /\ dec_outcome = Some("returned")
        /\ dec_message = message

\* C6: for a frame no longer than H*W, _extract_bits(0, len(frame)) on the
\* grid _embed_bits(frame) returned is the frame.
C6_ScanOrderSymmetry ==
    (/\ embedded # None /\ extracted # None
     /\ start_bit = Some(0) /\ length = Some(Len(Get(frame)))
     /\ Len(Get(frame)) <= Pixels(Get(embedded))) =>
        extracted = frame

\* a mixed frame filling a grid of several rows and columns exactly
C6_Witness ==
    /\ embedded # None /\ extracted = frame
    /\ start_bit = Some(0) /\ length = Some(Len(Get(frame)))
    /\ Get(embedded).height > 1 /\ Get(embedded).width > 1
    /\ Len(Get(frame)) = Pixels(Get(embedded))
    /\ \E a, b \in 1..Len(Get(frame)) : Get(frame)[a] = 0 /\ Get(frame)[b] = 1

\* C7: get_capacity is floor(H*W/8), and encode_message raises the capacity
\* error exactly when floor(len(text_to_gzr(message))/8) + 1 exceeds it; the
\* 32 header bits are not counted.
C7_CapacityCheck ==
    outcome # None =>
        LET g == Get(loaded)
            payload == text_to_gzr(Get(message))
        IN /\ Rejected <=> (Len(payload) \div 8) + 1 > Pixels(g) \div 8
           /\ Accepted => Get(Get(outcome).stats).capacity = Pixels(g) \div 8
           /\ get_capacity(g) = Pixels(g) \div 8

\* a call rejected on a grid too small for the header alone, on which an
\* earlier call was accepted
C7_Witness ==
    /\ Rejected
    /\ stego_image # None
    /\ Pixels(Get(loaded)) < header_width

\* C8: whenever encode_message accepts a message, the 32 header bits read
\* back from the stego grid parse to the payload bit length that was embedded.
C8_HeaderRecovery ==
    Accepted =>
        int_base2(_extract_bits(Get(stego_image), 0, header_width))
            = Some(Len(Get(encoded_bits)))

\* C9: a call of encode_message that raises the capacity error leaves image,
\* stego_image and the output file as they were before the call.
C9_NoMutationOnCapacityError ==
    [][(calls' = calls + 1 /\ Rejected') =>
          (image' = image /\ stego_image' = stego_image /\ outfile' = outfile)]_vars

\* a rejected call on an encoder that already holds a stego grid and a file
C9_Witness ==
    /\ Rejected
    /\ calls = 2
    /\ stego_image # None
    /\ outfile # None
    /\ image = loaded

\* the stego grid a fresh encoder over the grid g produces for msg
FreshStego(g, msg) ==
    encode_message([image |-> g, stego_image |-> None,
                    encoded_bits |-> None, outfile |-> None], msg, None).self.stego_image

\* C10: after any sequence of encode_message calls the encoder's image is the
\* grid originally loaded, and the stego grid of each accepted call is the one
\* a fresh encoder over the original grid produces for the same message.
C10_SourceNeverMutated ==
    image # None =>
        /\ image = loaded
        /\ Accepted => stego_image = FreshStego(Get(loaded), Get(message))

\* a second accepted call whose stego grid differs from the one the first
\* accepted call saved
C10_Witness ==
    /\ calls = 2
    /\ Accepted
    /\ outfile # None
    /\ outfile # stego_image
    /\ image = loaded

\* C11: decode_message (32 header bits, parse, extract, gzr_to_text) on any
\* grid completes and returns a text, also when the header declares more
\* digits than scan positions remain; it never raises.
C11_ExtractionNeverFails ==
    dec_outcome # None =>
        /\ dec_outcome = Some("returned")
        /\ extracted_bits # None
        /\ dec_message # None

\* a grid whose header declares more digits than the grid holds after it,
\* decoded to a non-empty text
C11_Witness ==
    /\ dec_outcome = Some("returned")
    /\ Pixels(Get(dec_stego_image)) > header_width
    /\ Get(int_base2(_extract_bits(Get(dec_stego_image), 0, header_width)))
          > Len(Get(extracted_bits))
    /\ dec_message # Some(<<>>)

\* least-significant bit of the pixel at row-major scan position k (from 0)
LsbAt(g, k) == g.px[<<k \div g.width, k % g.width>>] % 2

\* C12: after an accepted encode_message whose frame fits (32 + len(payload)
\* <= H*W), the LSBs of the first 32 row-major pixels of the stego grid are
\* len(payload) as a 32-digit big-endian binary number, and the LSBs of the
\* next len(payload) pixels are text_to_gzr(message) digit for digit.
C12_PersistedLayout ==
    (Accepted /\ header_width + Len(Get(encoded_bits)) <= Pixels(Get(stego_image))) =>
        LET g == Get(stego_image)
            payload == text_to_gzr(Get(message))
        IN /\ \A i \in 1..header_width :
                 LsbAt(g, i - 1) = IF header_width - i >= 30 THEN 0
                                   ELSE (Len(payload) \div Pow2(header_width - i)) % 2
           /\ int_base2([i \in 1..header_width |-> LsbAt(g, i - 1)]) = Some(Len(payload))
           /\ \A k \in 1..Len(payload) : LsbAt(g, header_width + k - 1) = payload[k]

\* a one-character message whose 41-bit frame fits the grid
C12_Witness ==
    /\ Accepted
    /\ Len(Get(message)) = 1
    /\ header_width + Len(Get(encoded_bits)) <= Pixels(Get(stego_image))
    /\ LsbAt(Get(stego_image), header_width) = Get(encoded_bits)[1]

\* C13: _embed_bits returns a grid of the same shape whose pixel at row-major
\* position k is (old AND 0xFE) OR bits[k] for k < min(len(bits), H*W) and
\* the old value elsewhere; the upper 7 bits of every pixel are kept, and of
\* a bitstring longer than H*W only the first H*W digits are embedded.
C13_EmbedResult ==
    embedded # None =>
        LET old == Get(loaded)
            new == Get(embedded)
            f == Get(frame)
        IN /\ new.height = old.height
           /\ new.width = old.width
           /\ DOMAIN new.px = DOMAIN old.px
           /\ \A k \in 0..(Pixels(old) - 1) :
                 LET pos == <<k \div old.width, k % old.width>> IN
                 /\ new.px[pos] = IF k < Len(f)
                                  THEN (old.px[pos] \div 2) * 2 + f[k + 1]
                                  ELSE old.px[pos]
                 /\ new.px[pos] \div 2 = old.px[pos] \div 2

\* a mixed bitstring one digit longer than the grid of several rows and
\* columns it was embedded in
C13_Witness ==
    /\ embedded # None
    /\ embedded # loaded
    /\ Get(loaded).height > 1 /\ Get(loaded).width > 1
    /\ Len(Get(frame)) = Pixels(Get(loaded)) + 1
    /\ \E a, b \in 1..Len(Get(frame)) : Get(frame)[a] = 0 /\ Get(frame)[b] = 1

Min(a, b) == IF a < b THEN a ELSE b
Max(a, b) == IF a > b THEN a ELSE b

\* C14: for start >= 0 and length >= 0, _extract_bits(start, length) returns in
\* row-major order the LSBs of exactly the scan positions k with
\* start <= k < min(start + length, H*W): max(0, min(length, H*W - start))
\* digits, so fewer than asked for when the range reaches beyond H*W.
C14_ExtractResult ==
    extracted # None =>
        LET g == Get(embedded)
            s == Get(start_bit)
            l == Get(length)
            e == Get(extracted)
            count == Max(0, Min(l, Pixels(g) - s))
        IN /\ Len(e) = count
           /\ \A m \in 1..count : e[m] = LsbAt(g, s + m - 1)
           /\ \A k \in 0..(Pixels(g) - 1) :
                 (s <= k /\ k < Min(s + l, Pixels(g))) <=> (k - s + 1 \in 1..Len(e))

\* a range from position 1 reaching two positions beyond the grid: H*W - 1
\* digits come back
C14_Witness ==
    /\ extracted # None
    /\ start_bit = Some(1)
    /\ length = Some(Pixels(Get(embedded)) + 1)
    /\ Len(Get(extracted)) = Pixels(Get(embedded)) - 1
    /\ Get(embedded).height > 1 /\ Get(embedded).width > 1

\* C15: for every threshold >= 1 generate_tribonacci returns the seed 1, 2, 4
\* followed by exactly the further terms T(k) = T(k-1) + T(k-2) + T(k-3) that
\* are <= threshold: non-empty, strictly increasing, a term equal to the
\* threshold kept, the first term above it left out; for 255 the nine weights.
C15_GeneratorContents ==
    (generated # None /\ Get(threshold) >= 1) =>
        LET s == Get(generated)
            t == Get(threshold)
            L == Len(s)
        IN /\ L >= 3
           /\ s[1] = 1 /\ s[2] = 2 /\ s[3] = 4
           /\ \A k \in 4..L : s[k] = s[k-1] + s[k-2] + s[k-3] /\ s[k] <= t
           /\ \A k \in 1..(L - 1) : s[k] < s[k+1]
           /\ s[L] + s[L-1] + s[L-2] > t
           /\ (t = max_ascii => s = <<1, 2, 4, 7, 13, 24, 44, 81, 149>>)

\* a threshold equal to a term: the term is the last one returned
C15_Witness ==
    /\ threshold = Some(44)
    /\ generated = Some(<<1, 2, 4, 7, 13, 24, 44>>)

\* C16 as stated: the result begins with 1, 2, 4 for every integer threshold,
\* thresholds below 1 included
C16_SeedForEveryThreshold ==
    generated # None =>
        /\ Len(Get(generated)) >= 3
        /\ SubSeq(Get(generated), 1, 3) = <<1, 2, 4>>

\* C16 amended: the result begins with 1, 2, 4 for every threshold >= 1 (so
\* for thresholds 1..3 it holds terms above the threshold) and is the empty
\* sequence for every threshold below 1.
C16_SeedFromOne ==
    generated # None =>
        IF Get(threshold) >= 1
        THEN /\ Len(Get(generated)) >= 3
             /\ SubSeq(Get(generated), 1, 3) = <<1, 2, 4>>
             /\ (Get(threshold) < 4 => Get(generated)[3] > Get(threshold))
        ELSE Get(generated) = <<>>

\* threshold 2: the seed comes back whole, with 4 above the threshold
C16_Witness ==
    /\ threshold = Some(2)
    /\ generated = Some(<<1, 2, 4>>)

RECURSIVE SelectedAbove(_, _, _)
\* sum of the weights seq[i], i > j, whose digit d[i] is 1
SelectedAbove(d, seq, j) ==
    IF j >= Len(seq) THEN 0
    ELSE d[j + 1] * seq[j + 1] + SelectedAbove(d, seq, j + 1)

\* the weight sequence decimal_to_gzr works with for the call in the state
SeqUsed == IF threshold = None THEN generate_tribonacci(Get(n))
           ELSE generate_tribonacci(Get(threshold))

SlotWeights == <<1, 2, 4, 7, 13, 24, 44, 81, 149>>

\* the i-th 9-digit slot of a bitstring, i from 1
SlotOf(b, i) == SubSeq(b, chunk_size * (i - 1) + 1, chunk_size * i)

\* d is the greedy selection of c over seq, smallest weight first
IsGreedySelection(d, seq, c) ==
    /\ Len(d) = Len(seq)
    /\ \A j \in 1..Len(seq) :
          /\ d[j] \in {0, 1}
          /\ d[j] = 1 <=> seq[j] <= c - SelectedAbove(d, seq, j)

\* C18: for every text over code points [0,255], text_to_gzr returns exactly
\* 9 * len(text) digits, the i-th slot is the greedy selection of the i-th
\* code point over the nine weights with digit j standing for weight seq[j],
\* and the selected weights of the slot sum to the code point.
C18_FixedWidthSlots ==
    (text # None /\ bits # None /\ InLatin1(Get(text))) =>
        /\ Len(Get(bits)) = chunk_size * Len(Get(text))
        /\ \A i \in 1..Len(Get(text)) :
              LET d == SlotOf(Get(bits), i) IN
              /\ IsGreedySelection(d, SlotWeights, Get(text)[i])
              /\ SelectedAbove(d, SlotWeights, 0) = Get(text)[i]

\* 2 and 65: the zero stripped from the numeral of 2 is back in front
C18_Witness ==
    /\ text = Some(<<2, 65>>)
    /\ bits = Some(<<0, 1, 0, 0, 0, 0, 0, 0, 0,  1, 0, 0, 1, 1, 0, 1, 0, 0>>)

\* weight sum of the i-th complete chunk of the bitstring b
ChunkValue(b, i) == SelectedAbove(SlotOf(b, i), SlotWeights, 0)

\* C19: gzr_to_text emits, in chunk order, the character whose code point is
\* the weight sum of each complete 9-digit chunk with a strictly positive sum,
\* nothing for a chunk of sum 0 and nothing for a trailing chunk of fewer than
\* 9 digits; the output has at most floor(len(bits)/9) characters.
C19_ChunkedDecoding ==
    (bits # None /\ out_text # None) =>
        LET b == Get(bits)
            chunks == Len(b) \div chunk_size
            values == [i \in 1..chunks |-> ChunkValue(b, i)]
        IN /\ Get(out_text) = SelectSeq(values, LAMBDA v : v > 0)
           /\ Len(Get(out_text)) <= chunks

\* a null chunk, the chunk of 65 and one trailing digit: only "A" comes out
C19_Witness ==
    /\ text = None
    /\ bits = Some(<<0, 0, 0, 0, 0, 0, 0, 0, 0,  1, 0, 0, 1, 1, 0, 1, 0, 0,  1>>)
    /\ out_text = Some(<<65>>)

\* the largest sum a slot can hold: all nine weights
WeightTotal == SelectedAbove([j \in 1..chunk_size |-> 1], SlotWeights, 0)

\* C20 as stated: for every code point c > 255 the slot text_to_gzr produces
\* does not decode to the character c
C20_NeverDecodesBack ==
    (text # None /\ out_text # None /\ Len(Get(text)) = 1 /\ Get(text)[1] > max_ascii) =>
        out_text # text

\* C20 amended: for every code point c > 255 text_to_gzr returns a 9-digit
\* slot without error; when c is above the sum of the nine weights the slot is
\* nine ones and decodes to that sum instead of c; when c is at most that sum
\* the slot is the greedy selection of c and decodes back to c.
C20_UnsupportedCodePoints ==
    (text # None /\ bits # None) =>
        /\ Len(Get(bits)) = chunk_size * Len(Get(text))
        /\ \A i \in 1..Len(Get(text)) :
              LET c == Get(text)[i]
                  d == SlotOf(Get(bits), i)
              IN c > max_ascii =>
                    IF c > WeightTotal
                    THEN /\ d = [j \in 1..chunk_size |-> 1]
                         /\ ChunkValue(Get(bits), i) = WeightTotal
                         /\ (out_text # None => Get(out_text)[i] = WeightTotal)
                    ELSE /\ IsGreedySelection(d, SlotWeights, c)
                         /\ ChunkValue(Get(bits), i) = c
                         /\ (out_text # None => Get(out_text)[i] = c)

\* the first code point above the sum of the weights comes back as the sum
C20_Witness ==
    /\ text = Some(<<WeightTotal + 1>>)
    /\ bits = Some(<<1, 1, 1, 1, 1, 1, 1, 1, 1>>)
    /\ out_text = Some(<<WeightTotal>>)

\* C21: when the second frame embedded into a stego grid is the frame of a
\* message B over [1,255] and fits in H*W, decode_message on the grid that
\* comes out returns exactly B, whatever was embedded first: bits of the first
\* frame left beyond the end of B's frame never reach the decoded text; and
\* embedding the frame already embedded gives the same grid again.
C21_OverwriteDecodesSecond ==
    /\ (reembedded # None /\ dec_stego_image = reembedded /\ dec_outcome # None) =>
          \A B \in ChannelMessages :
             (second_frame = Some(Frame(B)) /\ Len(Frame(B)) <= Pixels(Get(reembedded))) =>
                 /\ dec_outcome = Some("returned")
                 /\ dec_message = Some(B)
    /\ (reembedded # None /\ second_frame = frame) => reembedded = embedded

\* the frame of "A" over the frame of the two-character message: both fit,
\* ones of the first payload are left beyond the second frame, "A" comes back
C21_Witness ==
    /\ frame = Some(Frame(<<65, 230>>))
    /\ second_frame = Some(Frame(<<65>>))
    /\ reembedded # None /\ dec_stego_image = reembedded
    /\ Len(Get(frame)) <= Pixels(Get(reembedded))
    /\ \E k \in Len(Get(second_frame))..(Len(Get(frame)) - 1) : LsbAt(Get(reembedded), k) = 1
    /\ reembedded # embedded
    /\ dec_message = Some(<<65>>)

====
